---- MODULE Spec2Model ----
(***************************************************************************)
(* YSON converter (YSONConverter): encode, decode and their helpers.       *)
(*                                                                         *)
(* A JavaScript string is a sequence of one-character strings, so that    *)
(* formatting, tokenizing and parsing are computed character by character.*)
(* A data tree is a record of one fixed shape:                            *)
(*   t     "null" | "bool" | "num" | "str" | "arr" | "obj" | "undef"       *)
(*   b     the boolean, n the number, s the characters of the string      *)
(*   keys  the property names of an object, in property order             *)
(*   kids  the elements of an array / the property values of an object    *)
(* Numbers are integers; the keys of the input trees are not array        *)
(* indices, so their property order is their insertion order.             *)
(* Property names are ordinary names: __proto__, whose assignment sets    *)
(* the prototype of a JavaScript object, is not among them.               *)
(* Line indices are 1-based: index i stands for the source's i - 1.       *)
(***************************************************************************)
EXTENDS Integers, Sequences, FiniteSets, TLC

VARIABLES input, text, output, pc, textLines, startAt, nextAt

vars == <<input, text, output, pc, textLines, startAt, nextAt>>

\* ---------------------------------------------------------------- bounds
MaxStrLen == 2
MaxArrLen == 2
MaxRows == 2

\* ------------------------------------------------------------ characters
DQ == "\""
SP == " "
NL == "\n"
TAB == "\t"

\* /\s/ restricted to the characters of the model
WhiteSpace == {SP, NL, TAB}

DigitChars == <<"0", "1", "2", "3", "4", "5", "6", "7", "8", "9">>

IsDigit(c) == \E i \in 1..10 : DigitChars[i] = c

DigitVal(c) == (CHOOSE i \in 1..10 : DigitChars[i] = c) - 1

\* ---------------------------------------------------------------- values
Null == [t |-> "null", b |-> FALSE, n |-> 0, s |-> <<>>, keys |-> <<>>, kids |-> <<>>]
Undefined == [t |-> "undef", b |-> FALSE, n |-> 0, s |-> <<>>, keys |-> <<>>, kids |-> <<>>]
Bool(x) == [t |-> "bool", b |-> x, n |-> 0, s |-> <<>>, keys |-> <<>>, kids |-> <<>>]
Num(x) == [t |-> "num", b |-> FALSE, n |-> x, s |-> <<>>, keys |-> <<>>, kids |-> <<>>]
Str(x) == [t |-> "str", b |-> FALSE, n |-> 0, s |-> x, keys |-> <<>>, kids |-> <<>>]
Arr(xs) == [t |-> "arr", b |-> FALSE, n |-> 0, s |-> <<>>, keys |-> <<>>, kids |-> xs]
Obj(ks, xs) == [t |-> "obj", b |-> FALSE, n |-> 0, s |-> <<>>, keys |-> ks, kids |-> xs]

\* typeof value === 'object' && value !== null
IsObjectLike(v) == v.t \in {"arr", "obj"}

IsPrimitive(v) == v.t \in {"null", "bool", "num", "str"}

\* ------------------------------------------------------- string helpers
HasWhiteSpace(s) == \E i \in 1..Len(s) : s[i] \in WhiteSpace

HasChar(str, c) == \E i \in 1..Len(str) : str[i] = c

RECURSIVE Repeat(_, _)
Repeat(s, k) == IF k <= 0 THEN <<>> ELSE s \o Repeat(s, k - 1)

\* Array.prototype.join
RECURSIVE Join(_, _)
Join(parts, sep) ==
  IF Len(parts) = 0 THEN <<>>
  ELSE IF Len(parts) = 1 THEN parts[1]
  ELSE parts[1] \o sep \o Join(Tail(parts), sep)

\* String.prototype.trim
RECURSIVE TrimLeft(_)
TrimLeft(s) ==
  IF Len(s) > 0 /\ s[1] \in WhiteSpace THEN TrimLeft(Tail(s)) ELSE s

RECURSIVE TrimRight(_)
TrimRight(s) ==
  IF Len(s) > 0 /\ s[Len(s)] \in WhiteSpace THEN TrimRight(SubSeq(s, 1, Len(s) - 1)) ELSE s

Trim(s) == TrimRight(TrimLeft(s))

StartsWith(s, p) == Len(s) >= Len(p) /\ SubSeq(s, 1, Len(p)) = p

\* String(number) for an integer
RECURSIVE NatToStr(_)
NatToStr(k) ==
  IF k < 10 THEN <<DigitChars[k + 1]>>
  ELSE NatToStr(k \div 10) \o <<DigitChars[(k % 10) + 1]>>

NumToStr(k) == IF k < 0 THEN <<"-">> \o NatToStr(0 - k) ELSE NatToStr(k)

\* Number(str) on a run of decimal digits
RECURSIVE DigitsToNat(_)
DigitsToNat(s) ==
  IF Len(s) = 0 THEN 0
  ELSE 10 * DigitsToNat(SubSeq(s, 1, Len(s) - 1)) + DigitVal(s[Len(s)])

AllDigits(s) == Len(s) > 0 /\ \A i \in 1..Len(s) : IsDigit(s[i])

\* !isNaN(str): StrNumericLiteral over the characters of the model, which
\* spell no ".", exponent, radix prefix or "Infinity" next to a digit:
\* an optional sign and decimal digits, or the empty string (Number('') = 0).
IsNumericStr(s) ==
  LET u == Trim(s) IN
    \/ u = <<>>
    \/ AllDigits(u)
    \/ Len(u) > 1 /\ u[1] \in {"-", "+"} /\ AllDigits(Tail(u))

StrToNum(s) ==
  LET u == Trim(s) IN
    IF u = <<>> THEN 0
    ELSE IF u[1] = "-" THEN 0 - DigitsToNat(Tail(u))
    ELSE IF u[1] = "+" THEN DigitsToNat(Tail(u))
    ELSE DigitsToNat(u)

\* ------------------------------------------------- formatValue, parseValue
\* String(value) of an array or object reached through formatValue's fallback
RECURSIVE ToJSString(_)
ToJSString(v) ==
  CASE v.t = "null" -> <<"n", "u", "l", "l">>
    [] v.t = "undef" -> <<"u", "n", "d", "e", "f", "i", "n", "e", "d">>
    [] v.t = "bool" -> IF v.b THEN <<"t", "r", "u", "e">> ELSE <<"f", "a", "l", "s", "e">>
    [] v.t = "num" -> NumToStr(v.n)
    [] v.t = "str" -> v.s
    [] v.t = "arr" ->
         Join([i \in 1..Len(v.kids) |->
                 IF v.kids[i].t \in {"null", "undef"} THEN <<>> ELSE ToJSString(v.kids[i])],
              <<",">>)
    [] OTHER -> <<"[", "o", "b", "j", "e", "c", "t", " ", "O", "b", "j", "e", "c", "t", "]">>

\* mutant: quotes only for the space character
formatValue_SpaceOnly(value) ==
  IF value.t = "null" THEN <<"n", "u", "l", "l">>
  ELSE IF value.t = "bool" THEN ToJSString(value)
  ELSE IF value.t = "num" THEN ToJSString(value)
  ELSE IF value.t = "str" THEN
    IF HasChar(value.s, SP) THEN <<DQ>> \o value.s \o <<DQ>> ELSE value.s
  ELSE ToJSString(value)

formatValue(value) ==
  IF value.t = "null" THEN <<"n", "u", "l", "l">>
  ELSE IF value.t = "bool" THEN ToJSString(value)
  ELSE IF value.t = "num" THEN ToJSString(value)
  ELSE IF value.t = "str" THEN
    IF HasWhiteSpace(value.s) THEN <<DQ>> \o value.s \o <<DQ>> ELSE value.s
  ELSE ToJSString(value)

\* mutant: the quotes of a quoted token are kept
parseValue_KeepQuotes(str0) ==
  LET str == Trim(str0) IN
    IF str = <<"t", "r", "u", "e">> THEN Bool(TRUE)
    ELSE IF str = <<"f", "a", "l", "s", "e">> THEN Bool(FALSE)
    ELSE IF str = <<"n", "u", "l", "l">> THEN Null
    ELSE IF IsNumericStr(str) /\ str # <<>> THEN Num(StrToNum(str))
    ELSE Str(str)

\* mutant: the token is not trimmed
parseValue_NoTrim(str0) ==
  LET str == str0 IN
    IF StartsWith(str, <<DQ>>) /\ str[Len(str)] = DQ THEN Str(SubSeq(str, 2, Len(str) - 1))
    ELSE IF str = <<"t", "r", "u", "e">> THEN Bool(TRUE)
    ELSE IF str = <<"f", "a", "l", "s", "e">> THEN Bool(FALSE)
    ELSE IF str = <<"n", "u", "l", "l">> THEN Null
    ELSE IF IsNumericStr(str) /\ str # <<>> THEN Num(StrToNum(str))
    ELSE Str(str)

parseValue(str0) ==
  LET str == Trim(str0) IN
    IF StartsWith(str, <<DQ>>) /\ str[Len(str)] = DQ THEN Str(SubSeq(str, 2, Len(str) - 1))
    ELSE IF str = <<"t", "r", "u", "e">> THEN Bool(TRUE)
    ELSE IF str = <<"f", "a", "l", "s", "e">> THEN Bool(FALSE)
    ELSE IF str = <<"n", "u", "l", "l">> THEN Null
    ELSE IF IsNumericStr(str) /\ str # <<>> THEN Num(StrToNum(str))
    ELSE Str(str)

\* ---------------------------------------------------------------- tokenize
RECURSIVE TokenizeFrom(_, _, _, _, _)
\* mutant: the token of a quoted span is pushed without its quotes
TokenizeFrom_BareSpan(line, i, tokens, current, inQuotes) ==
  IF i > Len(line) THEN
    (IF current # <<>> THEN Append(tokens, current) ELSE tokens)
  ELSE
    LET char == line[i] IN
      IF char = DQ THEN
        IF inQuotes
          THEN TokenizeFrom(line, i + 1, Append(tokens, current), <<>>, FALSE)
          ELSE TokenizeFrom(line, i + 1, tokens, current, TRUE)
      ELSE IF char = SP /\ ~inQuotes THEN
        TokenizeFrom(line, i + 1,
                     IF current # <<>> THEN Append(tokens, current) ELSE tokens,
                     <<>>, inQuotes)
      ELSE TokenizeFrom(line, i + 1, tokens, Append(current, char), inQuotes)

TokenizeFrom(line, i, tokens, current, inQuotes) ==
  IF i > Len(line) THEN
    (IF current # <<>> THEN Append(tokens, current) ELSE tokens)
  ELSE
    LET char == line[i] IN
      IF char = DQ THEN
        IF inQuotes
          THEN TokenizeFrom(line, i + 1, Append(tokens, <<DQ>> \o current \o <<DQ>>), <<>>, FALSE)
          ELSE TokenizeFrom(line, i + 1, tokens, current, TRUE)
      ELSE IF char = SP /\ ~inQuotes THEN
        TokenizeFrom(line, i + 1,
                     IF current # <<>> THEN Append(tokens, current) ELSE tokens,
                     <<>>, inQuotes)
      ELSE TokenizeFrom(line, i + 1, tokens, Append(current, char), inQuotes)

\* mutant: quotes do not protect spaces
RECURSIVE SplitSpacesFrom(_, _, _, _)
SplitSpacesFrom(line, i, tokens, current) ==
  IF i > Len(line) THEN
    (IF current # <<>> THEN Append(tokens, current) ELSE tokens)
  ELSE IF line[i] = SP THEN
    SplitSpacesFrom(line, i + 1,
                    IF current # <<>> THEN Append(tokens, current) ELSE tokens, <<>>)
  ELSE SplitSpacesFrom(line, i + 1, tokens, Append(current, line[i]))

tokenize_NoQuotes(line) == SplitSpacesFrom(line, 1, <<>>, <<>>)

tokenize(line) == TokenizeFrom(line, 1, <<>>, <<>>, FALSE)

\* ------------------------------------------------------ object properties
Indices(k) == [i \in 1..k |-> i]

\* Object.keys(value): the property names of an object, the indices of an array
ObjectKeys(v) ==
  IF v.t = "obj" THEN v.keys
  ELSE IF v.t = "arr" THEN [i \in 1..Len(v.kids) |-> NumToStr(i - 1)]
  ELSE <<>>

HasKey(v, k) == \E i \in 1..Len(ObjectKeys(v)) : ObjectKeys(v)[i] = k

\* item[k]
Get(v, k) ==
  IF HasKey(v, k)
    THEN v.kids[CHOOSE i \in 1..Len(ObjectKeys(v)) : ObjectKeys(v)[i] = k]
    ELSE Undefined

KeySet(v) == {ObjectKeys(v)[i] : i \in 1..Len(ObjectKeys(v))}

\* a canonical array index ("0", "7", "12"): such property names are
\* enumerated first, in ascending numeric order, before all other names
IsArrayIndex(k) == AllDigits(k) /\ (Len(k) = 1 \/ k[1] # "0")

InsertAt(seq, p, x) == SubSeq(seq, 1, p - 1) \o <<x>> \o SubSeq(seq, p, Len(seq))

\* obj[key] = value on a plain object
ObjSet(obj, key, value) ==
  IF HasKey(obj, key) THEN
    LET p == CHOOSE i \in 1..Len(obj.keys) : obj.keys[i] = key
    IN Obj(obj.keys, [obj.kids EXCEPT ![p] = value])
  ELSE IF IsArrayIndex(key) THEN
    LET p == Cardinality({i \in 1..Len(obj.keys) :
                            IsArrayIndex(obj.keys[i])
                            /\ DigitsToNat(obj.keys[i]) < DigitsToNat(key)}) + 1
    IN Obj(InsertAt(obj.keys, p, key), InsertAt(obj.kids, p, value))
  ELSE Obj(Append(obj.keys, key), Append(obj.kids, value))

\* Object.assign(obj, src)
RECURSIVE AssignFrom(_, _, _)
AssignFrom(obj, src, i) ==
  IF i > Len(src.keys) THEN obj
  ELSE AssignFrom(ObjSet(obj, src.keys[i], src.kids[i]), src, i + 1)

ObjectAssign(obj, src) == AssignFrom(obj, src, 1)

\* ------------------------------------------------------------------ encode
\* mutant: three spaces for each level
IndentUnit_Three == <<SP, SP, SP>>

IndentUnit == <<SP, SP>>

\* mutant: the key sets of the elements are not compared
hasUniformStructure_AnyObjects(arr) ==
  IF Len(arr) = 0 THEN FALSE
  ELSE \A i \in 1..Len(arr) : IsObjectLike(arr[i])

\* keys.sort() and JSON.stringify(keys) === JSON.stringify(itemKeys): property
\* names are unique, so the sorted lists are equal exactly when the sets are
hasUniformStructure(arr) ==
  IF Len(arr) = 0 THEN FALSE
  ELSE IF ~IsObjectLike(arr[1]) THEN FALSE
  ELSE \A i \in 1..Len(arr) :
         IsObjectLike(arr[i]) /\ KeySet(arr[i]) = KeySet(arr[1])

\* mutant: each row lists its values in the order of its own keys
encodeWithSchema_OwnOrder(arr, indent) ==
  LET spaces == Repeat(IndentUnit, indent)
      keys == ObjectKeys(arr[1])
      schema == <<"$", "S", SP>> \o Join(keys, <<SP>>)
      rows == [r \in 1..Len(arr) |->
                 spaces \o IndentUnit
                   \o Join([j \in 1..Len(ObjectKeys(arr[r])) |->
                              formatValue(Get(arr[r], ObjectKeys(arr[r])[j]))], <<SP>>)]
  IN spaces \o schema \o <<NL>> \o Join(rows, <<NL>>)

\* mutant: the values of a row are written without quotes
encodeWithSchema_BareValues(arr, indent) ==
  LET spaces == Repeat(IndentUnit, indent)
      keys == ObjectKeys(arr[1])
      schema == <<"$", "S", SP>> \o Join(keys, <<SP>>)
      rows == [r \in 1..Len(arr) |->
                 spaces \o IndentUnit
                   \o Join([j \in 1..Len(keys) |-> ToJSString(Get(arr[r], keys[j]))], <<SP>>)]
  IN spaces \o schema \o <<NL>> \o Join(rows, <<NL>>)

encodeWithSchema(arr, indent) ==
  LET spaces == Repeat(IndentUnit, indent)
      keys == ObjectKeys(arr[1])
      schema == <<"$", "S", SP>> \o Join(keys, <<SP>>)
      rows == [r \in 1..Len(arr) |->
                 spaces \o IndentUnit
                   \o Join([j \in 1..Len(keys) |-> formatValue(Get(arr[r], keys[j]))], <<SP>>)]
  IN spaces \o schema \o <<NL>> \o Join(rows, <<NL>>)

RECURSIVE encode(_, _)



\* mutant: an array of one object is written in schema form
encode_SchemaForOne(obj, indent) ==
  LET spaces == Repeat(IndentUnit, indent) IN
    IF obj.t = "arr" THEN
      IF Len(obj.kids) > 0 /\ hasUniformStructure(obj.kids) THEN
        encodeWithSchema(obj.kids, indent)
      ELSE IF \A i \in 1..Len(obj.kids) : ~IsObjectLike(obj.kids[i]) THEN
        spaces \o Join([i \in 1..Len(obj.kids) |-> formatValue(obj.kids[i])], <<SP>>)
      ELSE
        Join([i \in 1..Len(obj.kids) |-> encode(obj.kids[i], indent)], <<NL>>)
    ELSE IF obj.t = "obj" THEN
      LET n == Len(obj.keys)
          simple == SelectSeq(Indices(n), LAMBDA i : ~IsObjectLike(obj.kids[i]))
          complex == SelectSeq(Indices(n), LAMBDA i : IsObjectLike(obj.kids[i]))
          pairs == Join([p \in 1..Len(simple) |->
                           obj.keys[simple[p]] \o <<SP>> \o formatValue(obj.kids[simple[p]])],
                        <<SP>>)
          simpleLines == IF Len(simple) > 0 THEN <<spaces \o pairs>> ELSE <<>>
          complexLines == [q \in 1..(2 * Len(complex)) |->
                             IF q % 2 = 1
                               THEN spaces \o obj.keys[complex[(q + 1) \div 2]]
                               ELSE encode(obj.kids[complex[q \div 2]], indent + 1)]
      IN Join(simpleLines \o complexLines, <<NL>>)
    ELSE <<>>

\* mutant: a primitive is written as a line of its own
encode_PrimitiveLine(obj, indent) ==
  LET spaces == Repeat(IndentUnit, indent) IN
    IF obj.t = "arr" THEN
      IF Len(obj.kids) > 1 /\ hasUniformStructure(obj.kids) THEN
        encodeWithSchema(obj.kids, indent)
      ELSE IF \A i \in 1..Len(obj.kids) : ~IsObjectLike(obj.kids[i]) THEN
        spaces \o Join([i \in 1..Len(obj.kids) |-> formatValue(obj.kids[i])], <<SP>>)
      ELSE
        Join([i \in 1..Len(obj.kids) |-> encode(obj.kids[i], indent)], <<NL>>)
    ELSE IF obj.t = "obj" THEN
      LET n == Len(obj.keys)
          simple == SelectSeq(Indices(n), LAMBDA i : ~IsObjectLike(obj.kids[i]))
          complex == SelectSeq(Indices(n), LAMBDA i : IsObjectLike(obj.kids[i]))
          pairs == Join([p \in 1..Len(simple) |->
                           obj.keys[simple[p]] \o <<SP>> \o formatValue(obj.kids[simple[p]])],
                        <<SP>>)
          simpleLines == IF Len(simple) > 0 THEN <<spaces \o pairs>> ELSE <<>>
          complexLines == [q \in 1..(2 * Len(complex)) |->
                             IF q % 2 = 1
                               THEN spaces \o obj.keys[complex[(q + 1) \div 2]]
                               ELSE encode(obj.kids[complex[q \div 2]], indent + 1)]
      IN Join(simpleLines \o complexLines, <<NL>>)
    ELSE spaces \o formatValue(obj)

\* mutant: the entries with array or object values come before the inline pairs
encode_ComplexFirst(obj, indent) ==
  LET spaces == Repeat(IndentUnit, indent) IN
    IF obj.t = "arr" THEN
      IF Len(obj.kids) > 1 /\ hasUniformStructure(obj.kids) THEN
        encodeWithSchema(obj.kids, indent)
      ELSE IF \A i \in 1..Len(obj.kids) : ~IsObjectLike(obj.kids[i]) THEN
        spaces \o Join([i \in 1..Len(obj.kids) |-> formatValue(obj.kids[i])], <<SP>>)
      ELSE
        Join([i \in 1..Len(obj.kids) |-> encode(obj.kids[i], indent)], <<NL>>)
    ELSE IF obj.t = "obj" THEN
      LET n == Len(obj.keys)
          simple == SelectSeq(Indices(n), LAMBDA i : ~IsObjectLike(obj.kids[i]))
          complex == SelectSeq(Indices(n), LAMBDA i : IsObjectLike(obj.kids[i]))
          pairs == Join([p \in 1..Len(simple) |->
                           obj.keys[simple[p]] \o <<SP>> \o formatValue(obj.kids[simple[p]])],
                        <<SP>>)
          simpleLines == IF Len(simple) > 0 THEN <<spaces \o pairs>> ELSE <<>>
          complexLines == [q \in 1..(2 * Len(complex)) |->
                             IF q % 2 = 1
                               THEN spaces \o obj.keys[complex[(q + 1) \div 2]]
                               ELSE encode(obj.kids[complex[q \div 2]], indent + 1)]
      IN Join(complexLines \o simpleLines, <<NL>>)
    ELSE <<>>

encode(obj, indent) ==
  LET spaces == Repeat(IndentUnit, indent) IN
    IF obj.t = "arr" THEN
      IF Len(obj.kids) > 1 /\ hasUniformStructure(obj.kids) THEN
        encodeWithSchema(obj.kids, indent)
      ELSE IF \A i \in 1..Len(obj.kids) : ~IsObjectLike(obj.kids[i]) THEN
        spaces \o Join([i \in 1..Len(obj.kids) |-> formatValue(obj.kids[i])], <<SP>>)
      ELSE
        Join([i \in 1..Len(obj.kids) |-> encode(obj.kids[i], indent)], <<NL>>)
    ELSE IF obj.t = "obj" THEN
      LET n == Len(obj.keys)
          simple == SelectSeq(Indices(n), LAMBDA i : ~IsObjectLike(obj.kids[i]))
          complex == SelectSeq(Indices(n), LAMBDA i : IsObjectLike(obj.kids[i]))
          pairs == Join([p \in 1..Len(simple) |->
                           obj.keys[simple[p]] \o <<SP>> \o formatValue(obj.kids[simple[p]])],
                        <<SP>>)
          simpleLines == IF Len(simple) > 0 THEN <<spaces \o pairs>> ELSE <<>>
          \* two pushed strings for each complex entry
          complexLines == [q \in 1..(2 * Len(complex)) |->
                             IF q % 2 = 1
                               THEN spaces \o obj.keys[complex[(q + 1) \div 2]]
                               ELSE encode(obj.kids[complex[q \div 2]], indent + 1)]
      IN Join(simpleLines \o complexLines, <<NL>>)
    ELSE <<>>

\* ------------------------------------------------------------------ decode
\* line.search(/\S/): index of the first non-whitespace character, -1 if none
RECURSIVE getIndentFrom(_, _)
getIndentFrom(line, i) ==
  IF i > Len(line) THEN -1
  ELSE IF line[i] \notin WhiteSpace THEN i - 1
  ELSE getIndentFrom(line, i + 1)

getIndent(line) == getIndentFrom(line, 1)

\* String.prototype.split('\n')
RECURSIVE SplitLinesFrom(_, _, _, _)
SplitLinesFrom(s, i, parts, cur) ==
  IF i > Len(s) THEN Append(parts, cur)
  ELSE IF s[i] = NL THEN SplitLinesFrom(s, i + 1, Append(parts, cur), <<>>)
  ELSE SplitLinesFrom(s, i + 1, parts, Append(cur, s[i]))

SplitLines(s) == SplitLinesFrom(s, 1, <<>>, <<>>)

\* String.prototype.split(/\s+/)
RECURSIVE SplitWSFrom(_, _, _, _)
SplitWSFrom(s, i, parts, cur) ==
  IF i > Len(s) THEN Append(parts, cur)
  ELSE IF s[i] \in WhiteSpace THEN
    IF i > 1 /\ s[i - 1] \in WhiteSpace
      THEN SplitWSFrom(s, i + 1, parts, cur)
      ELSE SplitWSFrom(s, i + 1, Append(parts, cur), <<>>)
  ELSE SplitWSFrom(s, i + 1, parts, Append(cur, s[i]))

SplitWS(s) == SplitWSFrom(s, 1, <<>>, <<>>)

SchemaMarker == <<"$", "S", SP>>

\* mutant: a single pair is not taken as a key/value line
isKeyValueLine_MoreThanTwo(line) ==
  LET tokens == tokenize(line) IN Len(tokens) > 2 /\ Len(tokens) % 2 = 0

isKeyValueLine(line) ==
  LET tokens == tokenize(line) IN Len(tokens) >= 2 /\ Len(tokens) % 2 = 0

\* mutant: the first pair of a key is kept, later pairs of the key are dropped
RECURSIVE FirstPairsFrom(_, _, _)
FirstPairsFrom(tokens, i, obj) ==
  IF i + 1 > Len(tokens) THEN obj
  ELSE IF HasKey(obj, tokens[i]) THEN FirstPairsFrom(tokens, i + 2, obj)
  ELSE FirstPairsFrom(tokens, i + 2, ObjSet(obj, tokens[i], parseValue(tokens[i + 1])))

parseInlinePairs_FirstWins(line) == FirstPairsFrom(tokenize(line), 1, Obj(<<>>, <<>>))

RECURSIVE PairsFrom(_, _, _)
PairsFrom(tokens, i, obj) ==
  IF i > Len(tokens) THEN obj
  ELSE IF i + 1 <= Len(tokens)
    THEN PairsFrom(tokens, i + 2, ObjSet(obj, tokens[i], parseValue(tokens[i + 1])))
    ELSE PairsFrom(tokens, i + 2, obj)

parseInlinePairs(line) == PairsFrom(tokenize(line), 1, Obj(<<>>, <<>>))

\* one row object of parseSchema
RECURSIVE RowFrom(_, _, _, _)
\* mutant: each value of a row is stored as a list of one value
RowFrom_Wrapped(keys, values, j, obj) ==
  IF j > Len(keys) \/ j > Len(values) THEN obj
  ELSE RowFrom(keys, values, j + 1, ObjSet(obj, keys[j], Arr(<<parseValue(values[j])>>)))

RowFrom(keys, values, j, obj) ==
  IF j > Len(keys) \/ j > Len(values) THEN obj
  ELSE RowFrom(keys, values, j + 1, ObjSet(obj, keys[j], parseValue(values[j])))

RECURSIVE RowsFrom(_, _, _, _, _)
RowsFrom(lines, i, baseIndent, keys, result) ==
  IF i > Len(lines) THEN [value |-> Arr(result), nextIdx |-> i]
  ELSE IF getIndent(lines[i]) <= baseIndent THEN [value |-> Arr(result), nextIdx |-> i]
  ELSE RowsFrom(lines, i + 1, baseIndent, keys,
                Append(result, RowFrom(keys, tokenize(Trim(lines[i])), 1, Obj(<<>>, <<>>))))

\* mutant: a line at the indent of the marker line is taken as a row
RECURSIVE RowsFromSameDepth(_, _, _, _, _)
RowsFromSameDepth(lines, i, baseIndent, keys, result) ==
  IF i > Len(lines) THEN [value |-> Arr(result), nextIdx |-> i]
  ELSE IF getIndent(lines[i]) < baseIndent THEN [value |-> Arr(result), nextIdx |-> i]
  ELSE RowsFromSameDepth(lines, i + 1, baseIndent, keys,
                         Append(result, RowFrom(keys, tokenize(Trim(lines[i])), 1, Obj(<<>>, <<>>))))

parseSchema_SameDepthRows(lines, startIdx) ==
  LET schemaLine == Trim(lines[startIdx])
      keys == SplitWS(SubSeq(schemaLine, 4, Len(schemaLine)))
  IN RowsFromSameDepth(lines, startIdx + 1, getIndent(lines[startIdx]), keys, <<>>)

\* mutant: the marker is cut one character short
parseSchema_ShortCut(lines, startIdx) ==
  LET schemaLine == Trim(lines[startIdx])
      keys == SplitWS(SubSeq(schemaLine, 3, Len(schemaLine)))
  IN RowsFrom(lines, startIdx + 1, getIndent(lines[startIdx]), keys, <<>>)

\* line indices are 1-based here: index i stands for the source's i - 1
parseSchema(lines, startIdx) ==
  LET schemaLine == Trim(lines[startIdx])
      keys == SplitWS(SubSeq(schemaLine, 4, Len(schemaLine)))
  IN RowsFrom(lines, startIdx + 1, getIndent(lines[startIdx]), keys, <<>>)

RECURSIVE parseLines(_, _)
RECURSIVE ParseLoop(_, _, _, _)
\* mutant: the index of the last line consumed is returned
parseLines_LastConsumed(lines, startIdx) ==
  IF startIdx > Len(lines) THEN [value |-> Null, nextIdx |-> startIdx]
  ELSE
    LET firstLine == Trim(lines[startIdx])
        baseIndent == getIndent(lines[startIdx])
        res == IF StartsWith(firstLine, SchemaMarker) THEN parseSchema(lines, startIdx)
               ELSE ParseLoop(lines, startIdx, baseIndent, Obj(<<>>, <<>>))
    IN [value |-> res.value, nextIdx |-> res.nextIdx - 1]

parseLines(lines, startIdx) ==
  IF startIdx > Len(lines) THEN [value |-> Null, nextIdx |-> startIdx]
  ELSE
    LET firstLine == Trim(lines[startIdx])
        baseIndent == getIndent(lines[startIdx])
    IN IF StartsWith(firstLine, SchemaMarker) THEN parseSchema(lines, startIdx)
       ELSE ParseLoop(lines, startIdx, baseIndent, Obj(<<>>, <<>>))

\* mutant: a line at the same indent is taken as the child of a bare key
ParseLoop_SameDepthChild(lines, i, baseIndent, obj) ==
  IF i > Len(lines) THEN [value |-> obj, nextIdx |-> i]
  ELSE
    LET indent == getIndent(lines[i]) IN
      IF indent < baseIndent THEN [value |-> obj, nextIdx |-> i]
      ELSE IF indent > baseIndent THEN ParseLoop(lines, i + 1, baseIndent, obj)
      ELSE
        LET line == Trim(lines[i]) IN
          IF StartsWith(line, SchemaMarker) THEN parseSchema(lines, i)
          ELSE IF isKeyValueLine(line) THEN
            ParseLoop(lines, i + 1, baseIndent, ObjectAssign(obj, parseInlinePairs(line)))
          ELSE IF i + 1 <= Len(lines) /\ getIndent(lines[i + 1]) >= indent THEN
            LET nested == parseLines(lines, i + 1)
            IN ParseLoop(lines, nested.nextIdx, baseIndent, ObjSet(obj, line, nested.value))
          ELSE ParseLoop(lines, i + 1, baseIndent, ObjSet(obj, line, Null))

\* mutant: a marker line met in the loop does not end the object block
ParseLoop_PastMarker(lines, i, baseIndent, obj) ==
  IF i > Len(lines) THEN [value |-> obj, nextIdx |-> i]
  ELSE
    LET indent == getIndent(lines[i]) IN
      IF indent < baseIndent THEN [value |-> obj, nextIdx |-> i]
      ELSE IF indent > baseIndent THEN ParseLoop(lines, i + 1, baseIndent, obj)
      ELSE
        LET line == Trim(lines[i]) IN
          IF StartsWith(line, SchemaMarker) THEN
            ParseLoop(lines, parseSchema(lines, i).nextIdx, baseIndent, obj)
          ELSE IF isKeyValueLine(line) THEN
            ParseLoop(lines, i + 1, baseIndent, ObjectAssign(obj, parseInlinePairs(line)))
          ELSE IF i + 1 <= Len(lines) /\ getIndent(lines[i + 1]) > indent THEN
            LET nested == parseLines(lines, i + 1)
            IN ParseLoop(lines, nested.nextIdx, baseIndent, ObjSet(obj, line, nested.value))
          ELSE ParseLoop(lines, i + 1, baseIndent, ObjSet(obj, line, Null))

\* mutant: a deeper line outside a child block is read as key/value pairs
ParseLoop_DeeperMerged(lines, i, baseIndent, obj) ==
  IF i > Len(lines) THEN [value |-> obj, nextIdx |-> i]
  ELSE
    LET indent == getIndent(lines[i]) IN
      IF indent < baseIndent THEN [value |-> obj, nextIdx |-> i]
      ELSE IF indent > baseIndent THEN
        ParseLoop(lines, i + 1, baseIndent, ObjectAssign(obj, parseInlinePairs(Trim(lines[i]))))
      ELSE
        LET line == Trim(lines[i]) IN
          IF StartsWith(line, SchemaMarker) THEN parseSchema(lines, i)
          ELSE IF isKeyValueLine(line) THEN
            ParseLoop(lines, i + 1, baseIndent, ObjectAssign(obj, parseInlinePairs(line)))
          ELSE IF i + 1 <= Len(lines) /\ getIndent(lines[i + 1]) > indent THEN
            LET nested == parseLines(lines, i + 1)
            IN ParseLoop(lines, nested.nextIdx, baseIndent, ObjSet(obj, line, nested.value))
          ELSE ParseLoop(lines, i + 1, baseIndent, ObjSet(obj, line, Null))

\* mutant: a line less deep than the base indent is read as a line of the block
ParseLoop_ShallowerMerged(lines, i, baseIndent, obj) ==
  IF i > Len(lines) THEN [value |-> obj, nextIdx |-> i]
  ELSE
    LET indent == getIndent(lines[i]) IN
      IF indent > baseIndent THEN ParseLoop(lines, i + 1, baseIndent, obj)
      ELSE
        LET line == Trim(lines[i]) IN
          IF StartsWith(line, SchemaMarker) THEN parseSchema(lines, i)
          ELSE IF isKeyValueLine(line) THEN
            ParseLoop(lines, i + 1, baseIndent, ObjectAssign(obj, parseInlinePairs(line)))
          ELSE IF i + 1 <= Len(lines) /\ getIndent(lines[i + 1]) > indent THEN
            LET nested == parseLines(lines, i + 1)
            IN ParseLoop(lines, nested.nextIdx, baseIndent, ObjSet(obj, line, nested.value))
          ELSE ParseLoop(lines, i + 1, baseIndent, ObjSet(obj, line, Null))

\* the while loop of parseLines
ParseLoop(lines, i, baseIndent, obj) ==
  IF i > Len(lines) THEN [value |-> obj, nextIdx |-> i]
  ELSE
    LET indent == getIndent(lines[i]) IN
      IF indent < baseIndent THEN [value |-> obj, nextIdx |-> i]
      ELSE IF indent > baseIndent THEN ParseLoop(lines, i + 1, baseIndent, obj)
      ELSE
        LET line == Trim(lines[i]) IN
          IF StartsWith(line, SchemaMarker) THEN parseSchema(lines, i)
          ELSE IF isKeyValueLine(line) THEN
            ParseLoop(lines, i + 1, baseIndent, ObjectAssign(obj, parseInlinePairs(line)))
          ELSE IF i + 1 <= Len(lines) /\ getIndent(lines[i + 1]) > indent THEN
            LET nested == parseLines(lines, i + 1)
            IN ParseLoop(lines, nested.nextIdx, baseIndent, ObjSet(obj, line, nested.value))
          ELSE ParseLoop(lines, i + 1, baseIndent, ObjSet(obj, line, Null))

\* mutant: blank lines are kept
decode_KeepBlank(ysonString) ==
  parseLines(SplitLines(ysonString), 1).value

decode(ysonString) ==
  LET lines == SelectSeq(SplitLines(ysonString), LAMBDA l : Trim(l) # <<>>)
  IN parseLines(lines, 1).value

\* ------------------------------------------------------------------ inputs
TrueWord == <<"t", "r", "u", "e">>
FalseWord == <<"f", "a", "l", "s", "e">>
NullWord == <<"n", "u", "l", "l">>

\* strings over a small alphabet, for the value formatter and parser
Alphabet == {"a", "1", "-", SP, TAB, DQ}

StrsUpTo(k) == UNION {[1..m -> Alphabet] : m \in 0..k}

PrimInputs ==
  {Null, Bool(TRUE), Bool(FALSE)}
    \cup {Num(k) : k \in {-12, -1, 0, 1, 30}}
    \cup {Str(x) : x \in StrsUpTo(MaxStrLen) \cup {TrueWord, FalseWord, NullWord}}

\* property names of the input trees: non-empty, no whitespace, no marker
KeyA == <<"a">>
KeyB == <<"b">>
KeyLists == {<<>>, <<KeyA>>, <<KeyB>>, <<KeyA, KeyB>>, <<KeyB, KeyA>>}

\* leaves of the input trees
LeafPool ==
  {Null, Bool(TRUE), Num(1), Num(-12),
   Str(<<>>), Str(<<"x">>), Str(<<"x", SP, "y">>), Str(<<"1">>), Str(TrueWord),
   Str(<<"x", DQ, "y">>), Str(<<"x", SP, DQ, "y">>), Str(<<"x", NL, "y">>)}

SmallPool == {Num(1), Str(<<"x">>)}

FlatArrs(P) == {Arr(xs) : xs \in UNION {[1..m -> P] : m \in 0..MaxArrLen}}

FlatObjs(P) == UNION {{Obj(ks, xs) : xs \in [1..Len(ks) -> P]} : ks \in KeyLists}

Flat(P) == FlatArrs(P) \cup FlatObjs(P)

\* one level of nesting: containers of small leaves and of containers of 1
Nested == Flat(SmallPool \cup Flat({Num(1)}))

\* a single key over a flat container of any leaves
Keyed == {Obj(<<<<"k">>>>, <<c>>) : c \in Flat(LeafPool)}

\* rows for arrays of objects: no column, one column holding a leaf or a small
\* container, or two columns in either property order
RowLeaves ==
  {Num(1), Str(<<>>), Str(<<"x">>), Str(<<"x", SP, "y">>), Str(<<"x", DQ, "y">>),
   Str(<<"x", NL, "y">>), Arr(<<Num(1), Num(2)>>), Obj(<<KeyB>>, <<Num(1)>>)}

RowPool ==
  {Obj(<<>>, <<>>)}
    \cup {Obj(<<KeyA>>, <<x>>) : x \in RowLeaves}
    \cup {Obj(<<KeyA, KeyB>>, <<x, y>>) : x \in {Num(1), Str(<<"x", SP, "y">>)}, y \in SmallPool}
    \cup {Obj(<<KeyB, KeyA>>, <<y, Num(1)>>) : y \in SmallPool}

RowArrs == {Arr(rs) : rs \in UNION {[1..m -> RowPool] : m \in 1..MaxRows}}

\* a table as the root, under a single key, or under a key next to a sibling
Siblings == {Str(<<"x", SP, "y">>), Str(<<"x", NL, "y">>)}

Tables ==
  RowArrs
    \cup {Obj(<<<<"k">>>>, <<r>>) : r \in RowArrs}
    \cup {Obj(<<KeyA, <<"k">>>>, <<x, r>>) : x \in Siblings, r \in RowArrs}

Inputs == Flat(LeafPool) \cup Nested \cup Keyed \cup Tables

\* ------------------------------------------------------ encode then decode
Init ==
  /\ input \in Inputs
  /\ text = <<>>
  /\ output = Undefined
  /\ textLines = <<>>
  /\ startAt = 0
  /\ nextAt = 0
  /\ pc = "start"

DoEncode ==
  /\ pc = "start"
  /\ text' = encode(input, 0)
  /\ pc' = "encoded"
  /\ UNCHANGED <<input, output, textLines, startAt, nextAt>>

DoDecode ==
  /\ pc = "encoded"
  /\ output' = decode(text)
  /\ pc' = "decoded"
  /\ UNCHANGED <<input, text, textLines, startAt, nextAt>>

Next == DoEncode \/ DoDecode

Spec == Init /\ [][Next]_vars

\* ------------------------------------------------ formatValue then parseValue
InitPrim ==
  /\ input \in PrimInputs
  /\ text = <<>>
  /\ output = Undefined
  /\ textLines = <<>>
  /\ startAt = 0
  /\ nextAt = 0
  /\ pc = "start"

DoFormatValue ==
  /\ pc = "start"
  /\ text' = formatValue(input)
  /\ pc' = "formatted"
  /\ UNCHANGED <<input, output, textLines, startAt, nextAt>>

DoParseValue ==
  /\ pc = "formatted"
  /\ output' = parseValue(text)
  /\ pc' = "parsed"
  /\ UNCHANGED <<input, text, textLines, startAt, nextAt>>

NextPrim == DoFormatValue \/ DoParseValue

SpecPrim == InitPrim /\ [][NextPrim]_vars

\* ------------------------------------------------------- decode of any text
MaxLines == 3

\* lines of a text handed to decode: key/value pairs, bare keys, marker lines,
\* rows with too few and too many tokens, an unterminated quote, a line without
\* a token, a blank line, at indents 0, 2 and 4
PairLine == <<"a", SP, "1">>
TwicePairLine == <<"a", SP, "1", SP, "a", SP, "2">>
KeyLine == <<"k">>
MarkerLine == <<"$", "S", SP, "a", SP, "b">>
RepeatMarkerLine == <<"$", "S", SP, "a", SP, "a">>
DeepPairLine == <<SP, SP, "b", SP, "2">>
DeepKeyLine == <<SP, SP, "k">>
DeepOddLine == <<SP, SP, DQ, "x", SP, "y", DQ, SP, "1", SP, "2">>
DeepMarkerLine == <<SP, SP, "$", "S", SP, "a">>
DeeperOpenQuoteLine == <<SP, SP, SP, SP, "a", SP, DQ, "x">>
LoneQuoteLine == <<SP, SP, DQ>>
BlankLine == <<SP, SP>>

LinePool ==
  {PairLine, TwicePairLine, KeyLine, MarkerLine, RepeatMarkerLine, DeepPairLine,
   DeepKeyLine, DeepOddLine, DeepMarkerLine, DeeperOpenQuoteLine, LoneQuoteLine,
   BlankLine}

Texts == {Join(ls, <<NL>>) : ls \in UNION {[1..m -> LinePool] : m \in 0..MaxLines}}

InitText ==
  /\ text \in Texts
  /\ input = Undefined
  /\ output = Undefined
  /\ textLines = <<>>
  /\ startAt = 0
  /\ nextAt = 0
  /\ pc = "text"

\* decode(ysonString): the non-blank lines, parsed from the first one
DoDecodeText ==
  /\ pc = "text"
  /\ textLines' = SelectSeq(SplitLines(text), LAMBDA l : Trim(l) # <<>>)
  /\ startAt' = 1
  /\ nextAt' = parseLines(textLines', 1).nextIdx
  /\ output' = decode(text)
  /\ pc' = "decoded"
  /\ UNCHANGED <<input, text>>

\* parseLines(lines, startIdx) from a later line, or from past the last one
DoParseLines ==
  /\ pc = "decoded"
  /\ \E i \in 2..(Len(textLines) + 1) :
       /\ startAt' = i
       /\ output' = parseLines(textLines, i).value
       /\ nextAt' = parseLines(textLines, i).nextIdx
  /\ pc' = "parsed"
  /\ UNCHANGED <<input, text, textLines>>

\* parseSchema(lines, startIdx) from a marker line
DoParseSchema ==
  /\ pc = "decoded"
  /\ \E i \in 1..Len(textLines) :
       /\ StartsWith(Trim(textLines[i]), SchemaMarker)
       /\ startAt' = i
       /\ output' = parseSchema(textLines, i).value
       /\ nextAt' = parseSchema(textLines, i).nextIdx
  /\ pc' = "rows"
  /\ UNCHANGED <<input, text, textLines>>

NextText == DoDecodeText \/ DoParseLines \/ DoParseSchema

SpecText == InitText /\ [][NextText]_vars

\* ------------------------------------------------- tokens and lines alone
\* parseValue and tokenize applied to a string of their own: strings over the
\* alphabet of the value parser, lines of letters, spaces and double quotes,
\* and the literal words bare, quoted, and next to a space, a tab or a letter
MaxTokenLen == 3

MaxLineLen == 6

LineAlphabet == {"a", SP, DQ}

TokenInputs == UNION {[1..m -> Alphabet] : m \in 0..MaxTokenLen}

LineInputs == UNION {[1..m -> LineAlphabet] : m \in 0..MaxLineLen}

WordInputs ==
  UNION {{w, <<DQ>> \o w \o <<DQ>>, <<SP>> \o w, w \o <<TAB>>, w \o <<"a">>} :
           w \in {TrueWord, FalseWord, NullWord}}

InitToken ==
  /\ text \in TokenInputs \cup LineInputs \cup WordInputs
  /\ input = Undefined
  /\ output = Undefined
  /\ textLines = <<>>
  /\ startAt = 0
  /\ nextAt = 0
  /\ pc = "line"

\* tokenize(line): the tokens are kept in textLines
DoTokenize ==
  /\ pc = "line"
  /\ textLines' = tokenize(text)
  /\ pc' = "tokens"
  /\ UNCHANGED <<input, text, output, startAt, nextAt>>

\* parseValue(str)
DoParseToken ==
  /\ pc = "line"
  /\ output' = parseValue(text)
  /\ pc' = "value"
  /\ UNCHANGED <<input, text, textLines, startAt, nextAt>>

NextToken == DoTokenize \/ DoParseToken

SpecToken == InitToken /\ [][NextToken]_vars

\* ----------------------------------------------------- properties: helpers
RECURSIVE Nodes(_)
Nodes(v) == {v} \cup UNION {Nodes(v.kids[i]) : i \in 1..Len(v.kids)}

AllStrings(v) == {x.s : x \in {y \in Nodes(v) : y.t = "str"}}

\* equality of trees that ignores the order of keys inside objects
RECURSIVE DeepEq(_, _)
DeepEq(x, y) ==
  /\ x.t = y.t
  /\ IF x.t = "arr" THEN
       /\ Len(x.kids) = Len(y.kids)
       /\ \A i \in 1..Len(x.kids) : DeepEq(x.kids[i], y.kids[i])
     ELSE IF x.t = "obj" THEN
       /\ Len(x.keys) = Len(y.keys)
       /\ KeySet(x) = KeySet(y)
       /\ \A k \in KeySet(x) : DeepEq(Get(x, k), Get(y, k))
     ELSE x = y

Quoted(str) == <<DQ>> \o str \o <<DQ>>

\* the value parser reads the formatted string back as the same string
ReadsBack(x) == parseValue(formatValue(x)) = x

\* a string that is one token on its line and keeps its type
PlainString(x) ==
  /\ x.t = "str"
  /\ x.s # <<>>
  /\ ~HasChar(x.s, DQ)
  /\ ~HasChar(x.s, NL)
  /\ ReadsBack(x)

\* a non-empty array whose elements are all primitives
IsPrimArray(v) ==
  v.t = "arr" /\ Len(v.kids) > 0 /\ \A i \in 1..Len(v.kids) : IsPrimitive(v.kids[i])

\* an array of objects (Object variant) that all have the same key set
UniformObjects(arr) ==
  /\ Len(arr) > 0
  /\ \A i \in 1..Len(arr) : arr[i].t = "obj" /\ KeySet(arr[i]) = KeySet(arr[1])

Lines(str) == SplitLines(str)

\* ---------------------------------------------------------------------- C1
\* C1 (as claimed): for every tree that is not a top-level primitive, has no
\* string with a double quote and no empty array or object, decode(encode(v))
\* is deep-equal to v, ignoring the order of keys. Stated here for the trees
\* whose strings are, in addition, non-empty, free of line breaks and read back
\* as strings by the value parser.
C1_Scope(v) ==
  /\ IsObjectLike(v)
  /\ \A x \in Nodes(v) : x.t = "str" => PlainString(x)
  /\ \A x \in Nodes(v) : IsObjectLike(x) => Len(x.kids) > 0

C1_RoundTripClaimed ==
  (pc = "decoded" /\ C1_Scope(input)) => DeepEq(output, input)

\* ---------------------------------------------------------------------- C2
\* C2 (as claimed): for an object that maps a key to a non-empty array of
\* primitives, encode emits the key alone on a line followed by a deeper line
\* with the space-joined values, and decode returns under that key the array
\* of those primitives in the same order.
C2_PrimArrayClaimed ==
  (pc = "decoded" /\ input.t = "obj") =>
    \A i \in 1..Len(input.keys) :
      IsPrimArray(input.kids[i]) =>
        /\ \E j \in 1..(Len(Lines(text)) - 1) :
             /\ Lines(text)[j] = input.keys[i]
             /\ Lines(text)[j + 1] =
                  IndentUnit \o Join([m \in 1..Len(input.kids[i].kids) |->
                                        formatValue(input.kids[i].kids[m])], <<SP>>)
        /\ Get(output, input.keys[i]).t = "arr"
        /\ Get(output, input.keys[i]) = input.kids[i]

\* ---------------------------------------------------------------------- C3
\* C3 (as claimed): decode after encode returns a tree identical to the input,
\* the order of keys inside every object included. Stated here for the trees
\* without arrays whose leaves are numbers only, where nothing but the order
\* of keys can differ.
C3_Scope(v) == \A x \in Nodes(v) : x.t \in {"obj", "num"} /\ (x.t = "obj" => Len(x.kids) > 0)

C3_SameOrderClaimed ==
  (pc = "decoded" /\ C3_Scope(input)) => output = input

\* ---------------------------------------------------------------------- C5
\* C5 (as claimed): encode emits the `$S` marker line for an array exactly
\* when the array has more than one element and all its elements are objects
\* with the same key set. Stated for a root array without empty containers,
\* none of whose elements brings a marker of its own.
C5_Scope(v) ==
  /\ v.t = "arr"
  /\ \A x \in Nodes(v) : IsObjectLike(x) => Len(x.kids) > 0
  /\ \A i \in 1..Len(v.kids) :
       /\ ~StartsWith(encode(v.kids[i], 0), SchemaMarker)
       /\ ~(v.kids[i].t = "str" /\ StartsWith(v.kids[i].s, <<"$">>))

C5_SchemaTriggerClaimed ==
  (pc # "start" /\ C5_Scope(input)) =>
    (StartsWith(text, SchemaMarker)
       <=> (Len(input.kids) > 1 /\ UniformObjects(input.kids)))

\* ---------------------------------------------------------------------- C6
\* C6 (as claimed): when no key and no string of the tree contains a colon,
\* comma or bracket, the text of encode contains none either.
Punctuation == {":", ",", "[", "]", "{", "}", "(", ")"}

C6_Scope(v) ==
  /\ \A x \in AllStrings(v) : \A c \in Punctuation : ~HasChar(x, c)
  /\ \A x \in Nodes(v) : \A i \in 1..Len(x.keys) : \A c \in Punctuation : ~HasChar(x.keys[i], c)

C6_NoPunctuationClaimed ==
  (pc # "start" /\ C6_Scope(input)) => \A c \in Punctuation : ~HasChar(text, c)

\* ---------------------------------------------------------------------- C4
\* C4 (as claimed): parseValue(formatValue(x)) = x, with the same type, for
\* every primitive x that contains no double quote.
C4_ParseFormatClaimed ==
  (pc = "parsed" /\ (input.t = "str" => ~HasChar(input.s, DQ))) => output = input

\* the string spells true, false, null or a number
SpellsLiteral(str) ==
  \/ str \in {TrueWord, FalseWord, NullWord}
  \/ AllDigits(str)
  \/ Len(str) > 1 /\ str[1] \in {"-", "+"} /\ AllDigits(Tail(str))

\* C4 (amended): parseValue(formatValue(x)) = x, with the same type, for every
\* primitive x that contains no double quote and is not a string spelling
\* true, false, null or a number.
C4_ParseFormat ==
  (pc = "parsed"
     /\ (input.t = "str" => ~HasChar(input.s, DQ) /\ ~SpellsLiteral(input.s)))
    => output = input

C4_Witness ==
  /\ pc = "parsed"
  /\ input.t = "str"
  /\ HasWhiteSpace(input.s)
  /\ ~HasChar(input.s, DQ)
  /\ text = Quoted(input.s)
  /\ output = input

\* ---------------------------------------------------------------------- C7
C7_Value(x) ==
  \/ x.t \in {"num", "bool", "null"}
  \/ x.t = "str" /\ x.s # <<>> /\ ReadsBack(x)

\* an array of two or more objects sharing one key set, with values as claimed
C7_Table(a) ==
  /\ a.t = "arr"
  /\ Len(a.kids) >= 2
  /\ UniformObjects(a.kids)
  /\ Len(a.kids[1].keys) > 0
  /\ \A r \in 1..Len(a.kids) : \A j \in 1..Len(a.kids[r].kids) : C7_Value(a.kids[r].kids[j])

\* the decoded value has the rows of the table: same length, same order, and
\* each row the same mapping from key to value
SameRows(o, a) ==
  /\ o.t = "arr"
  /\ Len(o.kids) = Len(a.kids)
  /\ \A r \in 1..Len(a.kids) : DeepEq(o.kids[r], a.kids[r])

\* C7 (as claimed): for an object that maps a key to an array of two or more
\* objects sharing one key set, with numbers, booleans, null or non-empty
\* strings that parseValue reads back as strings, decode(encode(v)) reproduces
\* the array under that key.
C7_SchemaRoundTripClaimed ==
  (pc = "decoded" /\ input.t = "obj") =>
    \A i \in 1..Len(input.keys) :
      C7_Table(input.kids[i]) => SameRows(Get(output, input.keys[i]), input.kids[i])

\* C7 (amended): the same, when the strings of the array contain no double
\* quote and no string of the object contains a line break.
C7_SchemaRoundTrip ==
  (pc = "decoded" /\ input.t = "obj" /\ \A x \in AllStrings(input) : ~HasChar(x, NL)) =>
    \A i \in 1..Len(input.keys) :
      (/\ C7_Table(input.kids[i])
       /\ \A x \in AllStrings(input.kids[i]) : ~HasChar(x, DQ))
        => SameRows(Get(output, input.keys[i]), input.kids[i])

C7_Witness ==
  /\ pc = "decoded"
  /\ input.t = "obj"
  /\ Len(input.keys) = 2
  /\ C7_Table(input.kids[2])
  /\ input.kids[2].kids[1].keys = <<KeyA, KeyB>>
  /\ input.kids[2].kids[2].keys = <<KeyB, KeyA>>
  /\ input.kids[2].kids[1].kids[1] = Str(<<"x", SP, "y">>)
  /\ SameRows(Get(output, input.keys[2]), input.kids[2])

\* ---------------------------------------------------------------------- C8
\* an object whose single key maps to a non-empty object of primitives
C8_Scope(v) ==
  /\ v.t = "obj"
  /\ Len(v.keys) = 1
  /\ v.kids[1].t = "obj"
  /\ Len(v.kids[1].kids) > 0
  /\ \A j \in 1..Len(v.kids[1].kids) : IsPrimitive(v.kids[1].kids[j])

\* the key alone, then the nested entries as alternating key and value tokens
\* indented by one unit; decode returns the original object
C8_TwoLines(v, txt, out) ==
  /\ Len(Lines(txt)) = 2
  /\ Lines(txt)[1] = v.keys[1]
  /\ Lines(txt)[2] =
       IndentUnit \o Join([j \in 1..Len(v.kids[1].keys) |->
                             v.kids[1].keys[j] \o <<SP>> \o formatValue(v.kids[1].kids[j])],
                          <<SP>>)
  /\ tokenize(Lines(txt)[2]) =
       [q \in 1..(2 * Len(v.kids[1].keys)) |->
          IF q % 2 = 1 THEN v.kids[1].keys[(q + 1) \div 2]
                       ELSE formatValue(v.kids[1].kids[q \div 2])]
  /\ out = v

\* C8 (as claimed): for an object whose single key maps to a nested object of
\* primitive-valued entries, encode returns exactly two lines (the key, then
\* the entries as alternating tokens at one indent unit) and decode of that
\* text returns the original object.
C8_NestedObjectClaimed ==
  (pc = "decoded" /\ C8_Scope(input)) => C8_TwoLines(input, text, output)

\* C8 (amended): the same, when the nested values are numbers, booleans, null
\* or non-empty strings without double quote or line break that parseValue
\* reads back as strings.
C8_NestedObject ==
  (pc = "decoded" /\ C8_Scope(input)
     /\ \A j \in 1..Len(input.kids[1].kids) :
          input.kids[1].kids[j].t = "str" => PlainString(input.kids[1].kids[j]))
    => C8_TwoLines(input, text, output)

C8_Witness ==
  /\ pc = "decoded"
  /\ C8_Scope(input)
  /\ input.kids[1].keys = <<KeyA, KeyB>>
  /\ input.kids[1].kids = <<Num(1), Str(<<"x">>)>>
  /\ text = <<"k", NL, SP, SP, "a", SP, "1", SP, "b", SP, "x">>
  /\ output = input

\* ---------------------------------------------------------------------- C9
HasSpace(x) == x.t = "str" /\ HasChar(x.s, SP)

\* the table of the input: the root array, or the array under the key k
TableOf(v) == IF v.t = "arr" THEN v ELSE Get(v, <<"k">>)

TableOut(v, out) == IF v.t = "arr" THEN out ELSE Get(out, <<"k">>)

IsTable(v) ==
  /\ TableOf(v).t = "arr"
  /\ Len(TableOf(v).kids) >= 2
  /\ UniformObjects(TableOf(v).kids)

\* the token after the key's token on the line is the quoted string
QuotedAfter(line, key, str) ==
  \E j \in 1..(Len(tokenize(line)) - 1) :
    tokenize(line)[j] = key /\ tokenize(line)[j + 1] = Quoted(str)

\* the entry i of the root object is a string with spaces: one quoted token on
\* the first line, and the same string after decode
C9_Inline(v, txt, out, i) ==
  /\ QuotedAfter(Lines(txt)[1], v.keys[i], v.kids[i].s)
  /\ Get(out, v.keys[i]) = v.kids[i]

\* the column j of row r of the table is a string with spaces: one quoted token
\* of some line, and the same string in row r after decode
C9_Row(v, txt, out, r, j) ==
  LET row == TableOf(v).kids[r] IN
    /\ \E m \in 1..Len(Lines(txt)) :
         \E q \in 1..Len(tokenize(Lines(txt)[m])) :
           tokenize(Lines(txt)[m])[q] = Quoted(row.kids[j].s)
    /\ TableOut(v, out).t = "arr"
    /\ Len(TableOut(v, out).kids) >= r
    /\ Get(TableOut(v, out).kids[r], row.keys[j]) = row.kids[j]

OneTokenEach(vals) ==
  \A j \in 1..Len(vals) :
    /\ IsPrimitive(vals[j])
    /\ vals[j].t = "str" => vals[j].s # <<>> /\ ~HasChar(vals[j].s, DQ)

SimpleValues(v) ==
  SelectSeq(v.kids, LAMBDA x : ~IsObjectLike(x))

C12_UniformClaimed ==
  (pc # "start" /\ input.t = "arr" /\ Len(input.kids) > 1
     /\ \A x \in Nodes(input) : IsObjectLike(x) => Len(x.kids) > 0) =>
    (hasUniformStructure(input.kids) <=> UniformObjects(input.kids))

\* --------------------------------------------------------------------- C13
IndentOf(d) == Repeat(IndentUnit, d)

\* the depth at which the array of the input is encoded: 0 for a root array,
\* 1 for the array under the single key k
DepthOf(v) == IF v.t = "arr" THEN 0 ELSE 1

\* the input is an array, or an object whose only entry is an array under k
ArrayAt(v) == v.t = "arr" \/ (v.keys = <<<<"k">>>> /\ v.kids[1].t = "arr")

\* the part of the text that encodes the array: all of it for a root array,
\* what follows the line of the key for the array under k
ArrayText(v, txt) == IF v.t = "arr" THEN txt ELSE SubSeq(txt, 3, Len(txt))

KeyLineFirst(v, txt) == v.t = "arr" \/ SubSeq(txt, 1, 2) = <<"k", NL>>

SchemaLine(arr, d) == IndentOf(d) \o <<"$", "S", SP>> \o Join(arr[1].keys, <<SP>>)

\* the values of element r, formatted, in the key order of the first element
RowLine(arr, r, d) ==
  IndentOf(d + 1)
    \o Join([j \in 1..Len(arr[1].keys) |-> formatValue(Get(arr[r], arr[1].keys[j]))], <<SP>>)

\* C13: for an array of more than one object with one key set, encode at depth
\* d emits the line `$S k1 ... kn` at depth d, the keys in the key order of the
\* first element, then one row per element, in array order, at depth d + 1;
\* row i lists the formatted values of element i in the order of the schema
\* keys, also when element i stores its keys in another order.
C13_SchemaForm ==
  (pc # "start" /\ ArrayAt(input) /\ IsTable(input)) =>
    /\ KeyLineFirst(input, text)
    /\ ArrayText(input, text) =
         Join(<<SchemaLine(TableOf(input).kids, DepthOf(input))>>
                \o [r \in 1..Len(TableOf(input).kids) |->
                      RowLine(TableOf(input).kids, r, DepthOf(input))],
              <<NL>>)

C13_Witness ==
  /\ pc = "encoded"
  /\ input.t = "obj"
  /\ IsTable(input)
  /\ TableOf(input).kids[1] = Obj(<<KeyA, KeyB>>, <<Str(<<"x", SP, "y">>), Num(1)>>)
  /\ TableOf(input).kids[2] = Obj(<<KeyB, KeyA>>, <<Str(<<"x">>), Num(1)>>)
  /\ Lines(text) =
       << <<"k">>,
          <<SP, SP, "$", "S", SP, "a", SP, "b">>,
          <<SP, SP, SP, SP, DQ, "x", SP, "y", DQ, SP, "1">>,
          <<SP, SP, SP, SP, "1", SP, "x">> >>

\* --------------------------------------------------------------------- C14
\* the positions of the entries with primitive values, and of those with
\* array or object values, each in the original order
SimpleAt(v) == SelectSeq(Indices(Len(v.keys)), LAMBDA i : IsPrimitive(v.kids[i]))

ComplexAt(v) == SelectSeq(Indices(Len(v.keys)), LAMBDA i : IsObjectLike(v.kids[i]))

\* key, value, key, value, ... of the primitive-valued entries
PairTokens(v) ==
  [q \in 1..(2 * Len(SimpleAt(v))) |->
     IF q % 2 = 1 THEN v.keys[SimpleAt(v)[(q + 1) \div 2]]
                  ELSE formatValue(v.kids[SimpleAt(v)[q \div 2]])]

\* for each entry with an array or object value: the key at depth d, then the
\* encoding of the value at depth d + 1
RECURSIVE ComplexBlocks(_, _, _)
ComplexBlocks(v, at, d) ==
  IF at = <<>> THEN <<>>
  ELSE <<IndentOf(d) \o v.keys[Head(at)], encode(v.kids[Head(at)], d + 1)>>
         \o ComplexBlocks(v, Tail(at), d)

ObjectText(v, d) ==
  Join((IF SimpleAt(v) = <<>> THEN <<>> ELSE <<IndentOf(d) \o Join(PairTokens(v), <<SP>>)>>)
         \o ComplexBlocks(v, ComplexAt(v), d),
       <<NL>>)

\* C14: encode of an object at depth d emits first one line with all entries
\* whose value is a primitive or null, as alternating key and formatted value
\* in their original order (no such line when there is none), then, for each
\* entry whose value is an array or object, in their original order, a line
\* with the key alone at depth d followed by the encoding of the value at
\* depth d + 1. Checked at depth 0 on the root and at depth 1 on its entries.
C14_ObjectForm ==
  (pc # "start" /\ input.t = "obj") =>
    /\ text = ObjectText(input, 0)
    /\ \A i \in 1..Len(input.keys) :
         input.kids[i].t = "obj" => encode(input.kids[i], 1) = ObjectText(input.kids[i], 1)

C14_Witness ==
  /\ pc = "encoded"
  /\ input = Obj(<<KeyA, KeyB>>, <<Obj(<<KeyA>>, <<Num(1)>>), Str(<<"x">>)>>)
  /\ Lines(text) = << <<"b", SP, "x">>, <<"a">>, <<SP, SP, "a", SP, "1">> >>

\* --------------------------------------------------------------------- C15
\* an array of primitives and objects that is neither all primitives nor more
\* than one object with one key set
C15_Scope(a) ==
  /\ a.t = "arr"
  /\ \A i \in 1..Len(a.kids) : IsPrimitive(a.kids[i]) \/ a.kids[i].t = "obj"
  /\ \E i \in 1..Len(a.kids) : a.kids[i].t = "obj"
  /\ ~(Len(a.kids) > 1 /\ UniformObjects(a.kids))

\* C15: for an array that is neither all primitives nor eligible for a schema
\* (primitives mixed with objects, objects with different key sets, a single
\* object), encode at depth d returns the encodings of the elements at the
\* same depth d, in array order, joined by line breaks; no line at depth d
\* is a `$S` line.
C15_ElementBlocks ==
  (pc # "start" /\ ArrayAt(input) /\ C15_Scope(TableOf(input))) =>
    /\ KeyLineFirst(input, text)
    /\ ArrayText(input, text) =
         Join([i \in 1..Len(TableOf(input).kids) |->
                 encode(TableOf(input).kids[i], DepthOf(input))],
              <<NL>>)
    /\ \A m \in 1..Len(Lines(ArrayText(input, text))) :
         LET line == Lines(ArrayText(input, text))[m] IN
           getIndent(line) = 2 * DepthOf(input) => ~StartsWith(Trim(line), SchemaMarker)

C15_Witness ==
  /\ pc = "encoded"
  /\ input = Obj(<<<<"k">>>>,
                 <<Arr(<<Obj(<<KeyA>>, <<Num(1)>>), Obj(<<KeyB, KeyA>>, <<Str(<<"x">>), Num(1)>>)>>)>>)
  /\ Lines(text) = << <<"k">>, <<SP, SP, "a", SP, "1">>, <<SP, SP, "b", SP, "x", SP, "a", SP, "1">> >>

\* --------------------------------------------------------------------- C11
\* the text has no line with a non-whitespace character
AllBlank(str) == \A i \in 1..Len(str) : str[i] \in WhiteSpace

\* C11: decode returns a value for every text (null, an object or an array),
\* whatever the token counts, the indentation, the rows of a schema and the
\* quotes of its lines, and it returns null when the text has no non-blank line.
C11_DecodeTotal ==
  pc = "decoded" =>
    /\ output.t \in {"null", "obj", "arr"}
    /\ AllBlank(text) => output = Null

\* a text with an odd token count, inconsistent indentation, a row with too
\* many tokens under a deeper marker and an unterminated quote
C11_Witness ==
  /\ pc = "decoded"
  /\ textLines = <<DeepOddLine, DeepMarkerLine, DeeperOpenQuoteLine>>
  /\ output = Arr(<<Obj(<<KeyA>>, <<Str(<<"a">>)>>)>>)

\* --------------------------------------------------------------------- C16
\* the result of parseLines from startAt, in the states that hold one
Parsed == [value |-> output, nextIdx |-> nextAt]

AfterParseLines == pc \in {"decoded", "parsed"} /\ startAt <= Len(textLines)

IsMarkerLine(line) == StartsWith(Trim(line), SchemaMarker)

\* neither a marker line nor a key/value line
IsBareKeyLine(line) == ~IsMarkerLine(line) /\ ~isKeyValueLine(Trim(line))

\* the first index from j on whose line is not indented deeper than ind, or
\* the index past the last line
RECURSIVE RunEnd(_, _, _)
RunEnd(ls, j, ind) ==
  IF j > Len(ls) THEN j
  ELSE IF getIndent(ls[j]) <= ind THEN j
  ELSE RunEnd(ls, j + 1, ind)

\* the maximal run of lines after line i that are indented deeper than line i
ChildRun(ls, i) == SubSeq(ls, i + 1, RunEnd(ls, i + 1, getIndent(ls[i])) - 1)

\* the value of a bare key at line i: the parse of its child run, null without one
ChildValue(ls, i) ==
  IF ChildRun(ls, i) = <<>> THEN Null ELSE parseLines(ChildRun(ls, i), 1).value

\* C16: a bare key on a line at the base indent of its block takes as value the
\* result of parsing the maximal run of following lines indented deeper than
\* the key's line, or null when no deeper line follows, and decoding of the
\* block resumes at the first line after that run.
C16_BareKey ==
  (AfterParseLines /\ IsBareKeyLine(textLines[startAt])) =>
    Parsed = ParseLoop(textLines,
                       RunEnd(textLines, startAt + 1, getIndent(textLines[startAt])),
                       getIndent(textLines[startAt]),
                       ObjSet(Obj(<<>>, <<>>), Trim(textLines[startAt]),
                              ChildValue(textLines, startAt)))

\* a child run whose second line is less deep than its first, then a line of
\* the block
C16_Witness ==
  /\ pc = "decoded"
  /\ textLines = <<KeyLine, DeeperOpenQuoteLine, DeepPairLine>>
  /\ output = Obj(<<KeyLine>>, <<Obj(<<KeyA>>, <<Str(<<"x">>)>>)>>)
  /\ nextAt = 4

\* --------------------------------------------------------------------- C17
EvenTokens(line) == Len(tokenize(Trim(line))) >= 2 /\ Len(tokenize(Trim(line))) % 2 = 0

OddTokens(line) == Len(tokenize(Trim(line))) % 2 = 1

\* the object of the pairs of a token list: token 2i-1 is a key, token 2i its
\* value; a key that occurs more than once has the value of its last pair
PairCount(tokens) == Len(tokens) \div 2

FirstPairOf(tokens, m) == \A j \in 1..(m - 1) : tokens[2 * j - 1] # tokens[2 * m - 1]

LastPairOf(tokens, key) ==
  CHOOSE m \in 1..PairCount(tokens) :
    /\ tokens[2 * m - 1] = key
    /\ \A j \in (m + 1)..PairCount(tokens) : tokens[2 * j - 1] # key

PairsObject(tokens) ==
  LET firsts == SelectSeq(Indices(PairCount(tokens)), LAMBDA m : FirstPairOf(tokens, m))
  IN Obj([p \in 1..Len(firsts) |-> tokens[2 * firsts[p] - 1]],
         [p \in 1..Len(firsts) |->
            parseValue(tokens[2 * LastPairOf(tokens, tokens[2 * firsts[p] - 1])])])

\* the entries of o1 and o2, an entry of o2 replacing the entry of o1 with its key
Merged(o1, o2) ==
  LET added == SelectSeq(Indices(Len(o2.keys)), LAMBDA i : ~HasKey(o1, o2.keys[i]))
  IN Obj(o1.keys \o [p \in 1..Len(added) |-> o2.keys[added[p]]],
         [i \in 1..Len(o1.keys) |->
            IF HasKey(o2, o1.keys[i]) THEN Get(o2, o1.keys[i]) ELSE o1.kids[i]]
           \o [p \in 1..Len(added) |-> o2.kids[added[p]]])

\* the block is the line at startAt and the line after it, both at one indent
TwoLineBlock ==
  /\ startAt + 1 <= Len(textLines)
  /\ getIndent(textLines[startAt + 1]) = getIndent(textLines[startAt])
  /\ nextAt = startAt + 2

\* C17: a line at the base indent that is not a marker line is treated as
\* inline key/value pairs exactly when tokenize yields an even number of tokens
\* that is at least 2: the pairs are merged into the object of the block, a
\* later pair for a key replacing an earlier one of the same or of an earlier
\* line. A line with an odd number of tokens is one bare key, the whole trimmed
\* line.
C17_LineKinds ==
  (AfterParseLines /\ ~IsMarkerLine(textLines[startAt])) =>
    LET line == textLines[startAt]
        base == getIndent(line)
    IN /\ EvenTokens(line) =>
            /\ Parsed = ParseLoop(textLines, startAt + 1, base,
                                  PairsObject(tokenize(Trim(line))))
            /\ (TwoLineBlock /\ ~IsMarkerLine(textLines[startAt + 1])
                  /\ EvenTokens(textLines[startAt + 1])) =>
                 output = Merged(PairsObject(tokenize(Trim(line))),
                                 PairsObject(tokenize(Trim(textLines[startAt + 1]))))
       /\ ~EvenTokens(line) =>
            /\ IsBareKeyLine(line)
            /\ output.t = "obj" => HasKey(output, Trim(line))
       /\ (OddTokens(line) /\ (startAt = Len(textLines) \/ nextAt = startAt + 1)) =>
            output = Obj(<<Trim(line)>>, <<Null>>)

\* the later line replaces the value of a, and its second pair its first
C17_Witness ==
  /\ pc = "decoded"
  /\ textLines = <<PairLine, TwicePairLine>>
  /\ output = Obj(<<KeyA>>, <<Num(2)>>)

\* --------------------------------------------------------------------- C18
\* the keys of a marker line: the words after `$S `
MarkerKeys(line) == SplitWS(SubSeq(Trim(line), 4, Len(Trim(line))))

Min(x, y) == IF x < y THEN x ELSE y

\* the array has one object for each line of the maximal run of lines after
\* the marker line that are deeper than it, and the returned index is that of
\* the first line after the run
RowPerLine(ls, i, out, next) ==
  /\ out.t = "arr"
  /\ next = RunEnd(ls, i + 1, getIndent(ls[i]))
  /\ Len(out.kids) = next - i - 1
  /\ \A r \in 1..Len(out.kids) : out.kids[r].t = "obj"

\* the keys of row object r are the first min(#keys, #tokens) keys
RowKeys(ls, i, out, r) ==
  LET keys == MarkerKeys(ls[i])
      tokens == tokenize(Trim(ls[i + r]))
  IN KeySet(out.kids[r]) = {keys[j] : j \in 1..Min(Len(keys), Len(tokens))}

\* C18 (as claimed): parseSchema returns one object per line of the maximal
\* run of lines that follow the marker line and are deeper than it, in order,
\* and the index of the first line not deeper than the marker line; in each
\* row object key j has the parsed j-th token for every j up to the smaller of
\* the number of keys and the number of tokens, further tokens are dropped and
\* keys without a token are absent.
C18_SchemaRowsClaimed ==
  pc = "rows" =>
    /\ RowPerLine(textLines, startAt, output, nextAt)
    /\ \A r \in 1..Len(output.kids) :
         LET keys == MarkerKeys(textLines[startAt])
             tokens == tokenize(Trim(textLines[startAt + r]))
         IN /\ RowKeys(textLines, startAt, output, r)
            /\ \A j \in 1..Min(Len(keys), Len(tokens)) :
                 Get(output.kids[r], keys[j]) = parseValue(tokens[j])

\* C18 (amended): the same, where key j has the parsed j-th token when the key
\* is not repeated at a later position that has a token; a repeated key has
\* the token of its last such position.
C18_SchemaRows ==
  pc = "rows" =>
    /\ RowPerLine(textLines, startAt, output, nextAt)
    /\ \A r \in 1..Len(output.kids) :
         LET keys == MarkerKeys(textLines[startAt])
             tokens == tokenize(Trim(textLines[startAt + r]))
             n == Min(Len(keys), Len(tokens))
         IN /\ RowKeys(textLines, startAt, output, r)
            /\ \A j \in 1..n :
                 (\A m \in (j + 1)..n : keys[m] # keys[j]) =>
                   Get(output.kids[r], keys[j]) = parseValue(tokens[j])

\* a row with more tokens than keys, then a line that ends the run
C18_Witness ==
  /\ pc = "rows"
  /\ textLines = <<DeepMarkerLine, DeeperOpenQuoteLine, DeepPairLine>>
  /\ startAt = 1
  /\ output = Arr(<<Obj(<<KeyA>>, <<Str(<<"a">>)>>)>>)
  /\ nextAt = 3

\* --------------------------------------------------------------------- C19
\* the lines from i to j - 1 are all at the indent ind or deeper
InBlock(ls, i, j, ind) == \A m \in i..(j - 1) : getIndent(ls[m]) >= ind

\* the marker lines of the block that starts at line i: at its base indent,
\* with no line before them that ends the block
BlockMarkers(ls, i) ==
  {j \in i..Len(ls) :
     /\ getIndent(ls[j]) = getIndent(ls[i])
     /\ IsMarkerLine(ls[j])
     /\ InBlock(ls, i, j, getIndent(ls[i]))}

HasBlockMarker(ls, i) == BlockMarkers(ls, i) # {}

FirstBlockMarker(ls, i) ==
  CHOOSE j \in BlockMarkers(ls, i) : \A m \in BlockMarkers(ls, i) : j <= m

\* C19: when the decoder, building an object block, meets a line at the base
\* indent of the block that begins with the schema marker, the value of the
\* whole block is the array of schema parsing from that line: the entries of
\* the earlier lines of the block are not part of it, and the lines after
\* the rows of the schema are not parsed into it.
C19_SchemaShortCircuit ==
  (AfterParseLines /\ HasBlockMarker(textLines, startAt)) =>
    LET m == FirstBlockMarker(textLines, startAt) IN
      /\ Parsed = parseSchema(textLines, m)
      /\ RowPerLine(textLines, m, output, nextAt)
      /\ \A r \in 1..Len(output.kids) : RowKeys(textLines, m, output, r)
      /\ output = parseLines(SubSeq(textLines, m, nextAt - 1), 1).value

\* a line of pairs, a marker line without rows, a line of pairs
C19_Witness ==
  /\ pc = "decoded"
  /\ textLines = <<PairLine, MarkerLine, PairLine>>
  /\ output = Arr(<<>>)
  /\ nextAt = 3

\* --------------------------------------------------------------------- C20
\* the first index from j on whose line is less deep than ind, or the index
\* past the last line
RECURSIVE BlockEnd(_, _, _)
BlockEnd(ls, j, ind) ==
  IF j > Len(ls) THEN j
  ELSE IF getIndent(ls[j]) < ind THEN j
  ELSE BlockEnd(ls, j + 1, ind)

\* the index after the lines that a parse from line c takes: up to the end of
\* the rows of the first marker line of the block, or to the end of the block
TakenEnd(ls, c) ==
  IF HasBlockMarker(ls, c)
    THEN RunEnd(ls, FirstBlockMarker(ls, c) + 1, getIndent(ls[c]))
    ELSE BlockEnd(ls, c + 1, getIndent(ls[c]))

\* the lines consumed as the child block of the bare key on line p
ChildLines(ls, p) ==
  IF p + 1 <= Len(ls) /\ getIndent(ls[p + 1]) > getIndent(ls[p])
    THEN (p + 1)..(TakenEnd(ls, p + 1) - 1)
    ELSE {}

\* the lines of the block from line i that are deeper than its base indent and
\* belong to the child block of no bare key of the block
Orphans(ls, i) ==
  {j \in i..(BlockEnd(ls, i + 1, getIndent(ls[i])) - 1) :
     /\ getIndent(ls[j]) > getIndent(ls[i])
     /\ ~\E p \in i..(j - 1) :
           /\ getIndent(ls[p]) = getIndent(ls[i])
           /\ IsBareKeyLine(ls[p])
           /\ j \in ChildLines(ls, p)}

\* the lines from line i on, without the orphans of its block
WithoutOrphans(ls, i) ==
  LET kept == SelectSeq(Indices(Len(ls)), LAMBDA j : j >= i /\ j \notin Orphans(ls, i))
  IN [q \in 1..Len(kept) |-> ls[kept[q]]]

\* C20: for an object block without a marker line at its base indent,
\* parseLines returns as next index the index of the first line after the
\* start that is less deep than the base indent, or the number of lines when
\* there is none, and the lines deeper than the base indent that are not
\* consumed as the child block of a bare key add nothing to the object: the
\* object is the one parsed from the lines without them.
C20_BlockEnd ==
  (AfterParseLines /\ ~HasBlockMarker(textLines, startAt)) =>
    /\ nextAt = BlockEnd(textLines, startAt + 1, getIndent(textLines[startAt]))
    /\ output.t = "obj"
    /\ output = parseLines(WithoutOrphans(textLines, startAt), 1).value

\* a deeper line after a line of pairs, then a line of the block
C20_Witness ==
  /\ pc = "decoded"
  /\ textLines = <<PairLine, DeepPairLine, KeyLine>>
  /\ Orphans(textLines, 1) = {2}
  /\ output = Obj(<<KeyA, KeyLine>>, <<Num(1), Null>>)
  /\ nextAt = 4

\* --------------------------------------------------------------------- C21
\* the number of space characters before the first other character
RECURSIVE LeadingSpaces(_)
LeadingSpaces(line) ==
  IF Len(line) > 0 /\ line[1] = SP THEN 1 + LeadingSpaces(Tail(line)) ELSE 0

IsBlank(line) == Trim(line) = <<>>

Max(x, y) == IF x > y THEN x ELSE y

\* the number of levels of arrays and objects of a tree
RECURSIVE Height(_)
Height(v) ==
  IF ~IsObjectLike(v) THEN 0
  ELSE 1 + (IF Len(v.kids) = 0 THEN 0
            ELSE LET hs == {Height(v.kids[i]) : i \in 1..Len(v.kids)}
                 IN CHOOSE h \in hs : \A g \in hs : g <= h)

\* every non-blank line of txt starts with an even number of spaces, two for
\* each level from depth d down to the deepest level of v
EvenIndents(txt, v, d) ==
  \A m \in 1..Len(Lines(txt)) :
    LET line == Lines(txt)[m] IN
      ~IsBlank(line) =>
        /\ LeadingSpaces(line) % 2 = 0
        /\ LeadingSpaces(line) >= 2 * d
        /\ LeadingSpaces(line) <= 2 * (d + Height(v))

\* the lines of the node itself start with exactly 2 * d spaces: the first
\* line of the text of an object or array that is not empty
OwnIndent(txt, v, d) ==
  (Len(v.kids) > 0 /\ ~IsBlank(Lines(txt)[1])) => LeadingSpaces(Lines(txt)[1]) = 2 * d

IndentsAsClaimed(v, txt) ==
  /\ EvenIndents(txt, v, 0)
  /\ OwnIndent(txt, v, 0)
  /\ \A i \in 1..Len(v.kids) :
       IsObjectLike(v.kids[i]) =>
         /\ EvenIndents(encode(v.kids[i], 1), v.kids[i], 1)
         /\ OwnIndent(encode(v.kids[i], 1), v.kids[i], 1)

SchemaArrays(v) ==
  {x \in Nodes(v) : x.t = "arr" /\ Len(x.kids) > 1 /\ hasUniformStructure(x.kids)}

\* every value of every element of the arrays emitted in schema form is a
\* primitive
RowValuesPrimitive(v) ==
  \A x \in SchemaArrays(v) :
    \A i \in 1..Len(x.kids) :
      \A j \in 1..Len(x.kids[i].kids) : IsPrimitive(x.kids[i].kids[j])

\* no string of the tree is empty or contains a line break, and the schema
\* rows hold primitives only
C21_Scope ==
  /\ \A x \in AllStrings(input) : x # <<>> /\ ~HasChar(x, NL)
  /\ RowValuesPrimitive(input)

MaxDepth == 2

Depths == 0..MaxDepth

\* an array that holds a primitive next to an array or object
IsMixedArray(v) ==
  /\ v.t = "arr"
  /\ \E i \in 1..Len(v.kids) : IsPrimitive(v.kids[i])
  /\ \E i \in 1..Len(v.kids) : IsObjectLike(v.kids[i])
  /\ ~(Len(v.kids) > 1 /\ hasUniformStructure(v.kids))

\* the tokens of all lines of a text, in order
RECURSIVE TokensOfLines(_)
TokensOfLines(ls) ==
  IF ls = <<>> THEN <<>> ELSE tokenize(Head(ls)) \o TokensOfLines(Tail(ls))

\* the elements of a mixed array that are arrays or objects
ObjectLikeKids(v) == SelectSeq(v.kids, LAMBDA x : IsObjectLike(x))

\* C24: encode of a primitive or null is the empty text at every depth, and
\* as an element of a mixed array the primitive contributes the empty text to
\* the join, so the tokens of the array's text are those of its array and
\* object elements alone.
C24_PrimitiveEmpty ==
  pc # "start" =>
    /\ \A x \in Nodes(input) : \A d \in Depths :
         IsPrimitive(x) => encode(x, d) = <<>>
    /\ IsMixedArray(input) =>
         /\ text = Join([i \in 1..Len(input.kids) |->
                           IF IsPrimitive(input.kids[i]) THEN <<>>
                           ELSE encode(input.kids[i], 0)], <<NL>>)
         /\ TokensOfLines(Lines(text))
              = TokensOfLines(Lines(Join([i \in 1..Len(ObjectLikeKids(input)) |->
                                            encode(ObjectLikeKids(input)[i], 0)], <<NL>>)))

\* a mixed array has been encoded: a number next to an object
C24_Witness ==
  /\ pc # "start" /\ IsMixedArray(input)
  /\ \E i \in 1..Len(input.kids) : input.kids[i].t = "num"
  /\ \E i \in 1..Len(input.kids) : input.kids[i].t = "obj" /\ Len(input.kids[i].kids) > 0
  /\ text # <<>>

\* --------------------------------------------------------------------- C27
\* the arrays of the tree with two or more objects of the same key set
UniformArrays(v) ==
  {x \in Nodes(v) : x.t = "arr" /\ Len(x.kids) > 1 /\ UniformObjects(x.kids)}

\* C27 (as claimed): an array of same-keyed objects is emitted in schema form
\* only when every value of every element is a primitive or null.
C27_SchemaPrimitiveClaimed ==
  pc # "start" =>
    \A x \in UniformArrays(input) :
      StartsWith(encode(x, 0), SchemaMarker) =>
        \A i \in 1..Len(x.kids) :
          \A j \in 1..Len(x.kids[i].kids) : IsPrimitive(x.kids[i].kids[j])

\* --------------------------------------------------------------------- C28
\* every value of every element is a primitive, its string free of double
\* quotes
PrimitiveRows(arr) ==
  \A r \in 1..Len(arr) :
    \A j \in 1..Len(arr[r].kids) :
      /\ IsPrimitive(arr[r].kids[j])
      /\ arr[r].kids[j].t = "str" => ~HasChar(arr[r].kids[j].s, DQ)

\* the line of row r in the text: the rows of the table are its last lines
RowText(v, txt, r) ==
  Lines(txt)[Len(Lines(txt)) - Len(TableOf(v).kids) + r]

\* row r has one token for each schema key, and after decode row r maps each
\* schema key to the parsed form of the value the element has under that key
RowAligned(v, txt, out, r) ==
  LET arr == TableOf(v).kids
      keys == arr[1].keys
  IN /\ Len(tokenize(Trim(RowText(v, txt, r)))) = Len(keys)
     /\ \A j \in 1..Len(keys) :
          /\ TableOut(v, out).t = "arr"
          /\ Len(TableOut(v, out).kids) >= r
          /\ HasKey(TableOut(v, out).kids[r], keys[j])
          /\ Get(TableOut(v, out).kids[r], keys[j])
               = parseValue(formatValue(Get(arr[r], keys[j])))

\* C28 (as claimed): in schema form, for an array whose element values are
\* all primitives, the strings without double quotes, every emitted row
\* tokenizes into as many tokens as there are schema keys, and decode assigns
\* every schema key in every row the value of its own column.
C28_RowsAlignedClaimed ==
  (pc = "decoded" /\ IsTable(input) /\ PrimitiveRows(TableOf(input).kids)) =>
    \A r \in 1..Len(TableOf(input).kids) : RowAligned(input, text, output, r)

\* C28: the same, when moreover no string of the tree is empty or contains a
\* line break.
C28_RowsAligned ==
  (/\ pc = "decoded" /\ IsTable(input) /\ PrimitiveRows(TableOf(input).kids)
   /\ \A x \in AllStrings(input) : x # <<>> /\ ~HasChar(x, NL)) =>
    \A r \in 1..Len(TableOf(input).kids) : RowAligned(input, text, output, r)

\* a table of two columns with a quoted string in the first has been decoded
C28_Witness ==
  /\ pc = "decoded" /\ IsTable(input) /\ PrimitiveRows(TableOf(input).kids)
  /\ \A x \in AllStrings(input) : x # <<>> /\ ~HasChar(x, NL)
  /\ TableOf(input).kids[1].keys = <<KeyA, KeyB>>
  /\ TableOf(input).kids[2].kids[1] = Str(<<"x", SP, "y">>)
  /\ RowAligned(input, text, output, 2)

\* --------------------------------------------------------------------- C29
\* the arrays of the tree whose only element is an object
SingleObjectArrays(v) ==
  {x \in Nodes(v) : x.t = "arr" /\ Len(x.kids) = 1 /\ x.kids[1].t = "obj"}

\* C29: for an object o and a depth d, encode([o], d) is encode(o, d), and
\* decode returns the same value for both texts.
C29_SingleElement ==
  pc # "start" =>
    /\ \A x \in SingleObjectArrays(input) : \A d \in Depths :
         /\ encode(x, d) = encode(x.kids[1], d)
         /\ decode(encode(x, d)) = decode(encode(x.kids[1], d))
    /\ (pc = "decoded" /\ input \in SingleObjectArrays(input)) =>
         /\ text = encode(input.kids[1], 0)
         /\ output = decode(encode(input.kids[1], 0))

\* an array of one object with two keys has been encoded and decoded
C29_Witness ==
  /\ pc = "decoded"
  /\ input \in SingleObjectArrays(input)
  /\ Len(input.kids[1].keys) = 2
  /\ output.t = "obj"

\* --------------------------------------------------------------------- C25
\* parseLines or parseSchema has been applied from a line of the text
AfterParse == pc \in {"decoded", "parsed", "rows"} /\ startAt <= Len(textLines)

\* C25: parseLines and parseSchema, called from a line of the text, return an
\* index strictly greater than the start index and at most the index past the
\* last line (indices are 1-based here: the source's number of lines is
\* Len(textLines) + 1), and decode returns a value for every text.
C25_Progress ==
  /\ AfterParse => (startAt < nextAt /\ nextAt <= Len(textLines) + 1)
  /\ pc = "decoded" => output.t \in {"null", "obj", "arr"}

\* a recursive call from the second of three lines stops at the third
C25_Witness ==
  /\ pc = "parsed"
  /\ Len(textLines) = 3
  /\ startAt = 2
  /\ nextAt = 3

\* --------------------------------------------------------------------- C26
\* the elements of the array are objects whose values are all primitives
RowsOfPrimitives(x) ==
  \A r \in 1..Len(x.kids) :
    /\ x.kids[r].t = "obj"
    /\ \A j \in 1..Len(x.kids[r].kids) : IsPrimitive(x.kids[r].kids[j])

\* C26: every array that occurs in a tree returned by decode (and by
\* parseLines or parseSchema from a later line) has only objects as elements,
\* and every value of those objects is a string, number, boolean or null.
C26_ArraysOfFlatObjects ==
  pc \in {"decoded", "parsed", "rows"} =>
    \A x \in Nodes(output) : x.t = "arr" => RowsOfPrimitives(x)

\* decode has returned an object whose key holds an array with a row that
\* maps a key to a string
C26_Witness ==
  /\ pc = "decoded"
  /\ output.t = "obj"
  /\ \E i \in 1..Len(output.kids) :
       /\ output.kids[i].t = "arr"
       /\ Len(output.kids[i].kids) > 0
       /\ \E j \in 1..Len(output.kids[i].kids[1].kids) :
            output.kids[i].kids[1].kids[j].t = "str"

\* --------------------------------------------------------------------- C30
\* the lines of the first top-level block: up to the first line less deep than
\* the first line, or up to the end of the rows of its first marker line
FirstBlock(ls) == SubSeq(ls, 1, TakenEnd(ls, 1) - 1)

\* C30: decode returns the value of the first top-level block only: parsing
\* stops at the first line that is less deep than the first non-blank line,
\* or at the first line at or above the marker's indent after a top-level
\* schema block, and the value is the one decode returns for the text cut
\* before that line, whatever follows.
C30_FirstBlockOnly ==
  (pc = "decoded" /\ Len(textLines) > 0) =>
    /\ nextAt = TakenEnd(textLines, 1)
    /\ output.t \in {"obj", "arr"}
    /\ output = decode(Join(FirstBlock(textLines), <<NL>>))

\* a schema block deeper than the line that follows it: the marker line at
\* indent 2, one row, then a line of pairs at indent 0 that is ignored
C30_Witness ==
  /\ pc = "decoded"
  /\ Len(textLines) = 3
  /\ IsMarkerLine(textLines[1])
  /\ getIndent(textLines[3]) < getIndent(textLines[1])
  /\ isKeyValueLine(Trim(textLines[3]))
  /\ nextAt = 3
  /\ output.t = "arr"
  /\ Len(output.kids) = 1

\* --------------------------------------------------------------------- C22
\* the precedence of the claim, applied to the string tok: quoted, then the
\* literal words, then a number, then the string itself
ByPrecedence(tok) ==
  IF Len(tok) > 0 /\ tok[1] = DQ /\ tok[Len(tok)] = DQ
    THEN Str(SubSeq(tok, 2, Len(tok) - 1))
  ELSE IF tok = TrueWord THEN Bool(TRUE)
  ELSE IF tok = FalseWord THEN Bool(FALSE)
  ELSE IF tok = NullWord THEN Null
  ELSE IF Trim(tok) # <<>> /\ IsNumericStr(tok) THEN Num(StrToNum(tok))
  ELSE Str(tok)

\* C22 (as claimed): parseValue applies the precedence to the token as given:
\* quoted, true and false, null, number, and every other token yields itself
\* as a string.
C22_PrecedenceClaimed ==
  pc = "value" => output = ByPrecedence(text)

\* C22: parseValue removes the whitespace at both ends of the token and
\* applies the precedence to what is left: a text that starts and ends with
\* a double quote yields the string between them (the empty string for a
\* lone quote), true and false yield booleans, null yields null, a text that
\* parses fully as a number yields that number, and every other text yields
\* itself, trimmed, as a string.
C22_Precedence ==
  pc = "value" => output = ByPrecedence(Trim(text))

\* the quoted word true has been parsed to the string true
C22_Witness ==
  /\ pc = "value"
  /\ text = Quoted(TrueWord)
  /\ output = Str(TrueWord)

\* --------------------------------------------------------------------- C23
\* the tokens of the claim: one for each maximal run of non-space characters
\* outside quotes and one, with its quotes, for each quoted span, a span being
\* separate from the characters next to it; an unterminated quote takes the
\* rest of the line as the final token
RECURSIVE SpanTokensFrom(_, _, _, _, _)
SpanTokensFrom(line, i, tokens, current, inQuotes) ==
  IF i > Len(line) THEN
    (IF current # <<>> THEN Append(tokens, current) ELSE tokens)
  ELSE IF line[i] = DQ /\ inQuotes THEN
    SpanTokensFrom(line, i + 1, Append(tokens, <<DQ>> \o current \o <<DQ>>), <<>>, FALSE)
  ELSE IF line[i] = DQ THEN
    SpanTokensFrom(line, i + 1,
                   IF current # <<>> THEN Append(tokens, current) ELSE tokens,
                   <<>>, TRUE)
  ELSE IF line[i] = SP /\ ~inQuotes THEN
    SpanTokensFrom(line, i + 1,
                   IF current # <<>> THEN Append(tokens, current) ELSE tokens,
                   <<>>, FALSE)
  ELSE SpanTokensFrom(line, i + 1, tokens, Append(current, line[i]), inQuotes)

SpanTokens(line) == SpanTokensFrom(line, 1, <<>>, <<>>, FALSE)

\* the number of double quotes before position i of the line
RECURSIVE QuotesBefore(_, _)
QuotesBefore(line, i) ==
  IF i <= 1 THEN 0
  ELSE QuotesBefore(line, i - 1) + (IF line[i - 1] = DQ THEN 1 ELSE 0)

IsOpeningQuote(line, i) == line[i] = DQ /\ QuotesBefore(line, i) % 2 = 0

\* every opening quote is at the start of the line or follows a space or a
\* closing quote
QuotesStartTokens(line) ==
  \A i \in 2..Len(line) :
    IsOpeningQuote(line, i) => line[i - 1] \in {SP, DQ}

\* C23 (as claimed): tokenize returns, from left to right, one token for each
\* maximal run of non-space characters outside quotes and one for each quoted
\* span, the span's token being its text with both quotes and separate from
\* the characters next to it; an unterminated quote takes the rest of the
\* line as the final token.
C23_TokensClaimed ==
  pc = "tokens" => textLines = SpanTokens(text)

\* C23: the same, for a line in which every opening quote is at the start of
\* the line or follows a space or a closing quote.
C23_Tokens ==
  (pc = "tokens" /\ QuotesStartTokens(text)) => textLines = SpanTokens(text)

\* a quoted span with a space inside, then a bare token next to its closing
\* quote
C23_Witness ==
  /\ pc = "tokens"
  /\ text = <<DQ, "a", SP, "a", DQ, "a">>
  /\ textLines = << <<DQ, "a", SP, "a", DQ>>, <<"a">> >>

====
